---- MODULE Spec2Model ----
(***************************************************************************)
(* Telemetry lifecycle of shungenie/otel-tutorial.                         *)
(*                                                                         *)
(*   Spec          setupOTelSDK (src/otel.go) under an arbitrary caller    *)
(*                 that invokes the returned shutdown function repeatedly. *)
(*   RunSpec       run() (src/main.go): setupOTelSDK, the HTTP server      *)
(*                 goroutine, the interrupt signal and the select.         *)
(*   RunFair       RunSpec with the fairness of the Go scheduler.          *)
(*   CollectorSpec main() of the collector example (src/unnamed/part_001). *)
(*                                                                         *)
(* An error value is the sequence of the leaf errors it wraps: nil is the  *)
(* empty sequence, errors.Join concatenates (it drops nil operands and is  *)
(* nil when all are nil), errors.Is is membership.                         *)
(***************************************************************************)
EXTENDS Naturals, Sequences, FiniteSets

VARIABLES
    \* ---- setupOTelSDK (src/otel.go) ----
    spc,            \* position inside setupOTelSDK
    shutdownFuncs,  \* the registry: sequence of provider kinds whose Shutdown is registered
    err,            \* named result `err` of setupOTelSDK
    constructed,    \* history: provider kinds constructed, in order
    installed,      \* process-wide defaults installed (otel.Set..., global.Set...)
    failedAt,       \* history: kind whose constructor failed, or "none"
    tdLog,          \* history: every teardown callback invocation, in order
    calls,          \* history: one record per invocation of the shutdown closure
    \* ---- run (src/main.go) ----
    rpc,            \* position inside run()
    runErr,         \* named result `err` of run
    notifying,      \* signal.NotifyContext is registered and stop() not yet called
    ctxDone,        \* ctx.Done() is closed
    gpc,            \* position of the server goroutine
    lasResult,      \* what srv.ListenAndServe() returned (Nil while it has not)
    srvErr,         \* the buffered channel srvErr
    inShutdown,     \* srv.Shutdown has been called
    shutdownCtx,    \* the context srv.Shutdown was given
    branch,         \* the select case taken
    trace,          \* history: stop / srv.Shutdown / otelShutdown calls of run, with results
    \* ---- collector example main (src/unnamed/part_001) ----
    cpc,            \* position inside main()
    shutdownTracerProvider,  \* "unset", "nil" or "fn"
    shutdownMeterProvider,   \* "unset", "nil" or "fn"
    defers,         \* the defer stack of main, last pushed last
    i,              \* loop counter
    panicking,      \* a panic is unwinding main
    nilCalls,       \* history: deferred calls made through a nil function value
    logged          \* history: the logger.Error messages, in order

setupVars == <<spc, shutdownFuncs, err, constructed, installed, failedAt, tdLog, calls>>
runVars == <<rpc, runErr, notifying, ctxDone, gpc, lasResult, srvErr, inShutdown,
             shutdownCtx, branch, trace>>
collectorVars == <<cpc, shutdownTracerProvider, shutdownMeterProvider, defers, i,
                   panicking, nilCalls, logged>>
vars == <<setupVars, runVars, collectorVars>>

\* -------------------------------------------------------------------------
\* Bounds and program constants

\* How many times the arbitrary caller of Spec invokes the returned shutdown.
MaxShutdownCalls == 3

\* srvErr := make(chan error, 1)
SrvErrCap == 1

\* for i := 0; i < 10; i++
LoopCount == 10

\* -------------------------------------------------------------------------
\* Error values

Nil == <<>>

ConstructErr(k) == <<"construct", k>>
TeardownErr(k) == <<"teardown", k>>
ErrListen == <<"server", "listen">>
ErrServe == <<"server", "serve">>
ErrServerClosed == <<"server", "closed">>
ErrSrvShutdown == <<"server", "shutdown">>

Contains(e, leaf) == \E n \in 1..Len(e) : e[n] = leaf

\* A plausible slip: `err = fn(ctx)` instead of joining.
JoinOverwrite(a, b) == IF b # Nil THEN b ELSE a

\* errors.Join(a, b)
Join(a, b) == a \o b

\* -------------------------------------------------------------------------
\* Helpers on sequences

Range(s) == {s[n] : n \in 1..Len(s)}

Count(k, s) == Cardinality({n \in 1..Len(s) : s[n] = k})

RECURSIVE Reverse(_)
Reverse(s) == IF s = <<>> THEN <<>> ELSE Append(Reverse(Tail(s)), Head(s))

IsPrefix(s, t) == Len(s) <= Len(t) /\ SubSeq(t, 1, Len(s)) = s

\* -------------------------------------------------------------------------
\* setupOTelSDK

\* The order in which setupOTelSDK constructs the providers.
ConstructionOrder == <<"tracer", "meter", "logger">>

Kinds == Range(ConstructionOrder)

\* The kinds constructed before kind k.
RECURSIVE Before(_, _)
Before(k, order) ==
    IF order = <<>> \/ Head(order) = k THEN <<>>
    ELSE <<Head(order)>> \o Before(k, Tail(order))

NextStep(k) ==
    IF k = "tracer" THEN "meter" ELSE IF k = "meter" THEN "logger" ELSE "return"

\* fn(ctx) for the registered Shutdown of kind k; fails is the set of kinds
\* whose Shutdown returns an error in this invocation.
TeardownResult(k, fails) == IF k \in fails THEN <<TeardownErr(k)>> ELSE Nil

\* `for _, fn := range shutdownFuncs`
IterationOrder(funcs) == funcs

\* A plausible slip: the loop stops at the first callback that fails.
RECURSIVE JoinAllStopAtFirst(_, _, _)
JoinAllStopAtFirst(order, fails, acc) ==
    IF order = <<>> \/ acc # Nil THEN acc
    ELSE JoinAllStopAtFirst(Tail(order), fails,
                            Join(acc, TeardownResult(Head(order), fails)))

\* The loop body `err = errors.Join(err, fn(ctx))` over the callbacks in order.
RECURSIVE JoinAll(_, _, _)
JoinAll(order, fails, acc) ==
    IF order = <<>> THEN acc
    ELSE JoinAll(Tail(order), fails, Join(acc, TeardownResult(Head(order), fails)))

\* The value the shutdown closure returns.
ShutdownErr(funcs, fails) == JoinAll(IterationOrder(funcs), fails, Nil)

\* A plausible slip: the registry is not cleared.
RegistryKept(funcs) == funcs

\* `shutdownFuncs = nil`
RegistryAfterShutdown(funcs) == <<>>

\* The states a context.Context argument can be in.
Contexts == {"live", "cancelled"}

\* The ctx of setupOTelSDK's caller, as handleErr passes it on.
SetupCtx == IF ctxDone THEN "cancelled" ELSE "live"

\* One invocation of the shutdown closure with context c, returning result.
shutdown(c, fails, result) ==
    /\ result = ShutdownErr(shutdownFuncs, fails)
    /\ tdLog' = tdLog \o IterationOrder(shutdownFuncs)
    /\ calls' = Append(calls, [invoked |-> IterationOrder(shutdownFuncs),
                               ctx |-> c,
                               fails |-> fails,
                               err |-> result])
    /\ shutdownFuncs' = RegistryAfterShutdown(shutdownFuncs)

\* A plausible slip: handleErr records the error without cleaning up.
handleErrNoCleanup(inErr) ==
    /\ err' = inErr
    /\ UNCHANGED <<tdLog, calls, shutdownFuncs>>

\* handleErr: `err = errors.Join(inErr, shutdown(ctx))`
handleErr(inErr) ==
    \E fails \in SUBSET Range(shutdownFuncs) :
        LET result == ShutdownErr(shutdownFuncs, fails) IN
        /\ shutdown(SetupCtx, fails, result)
        /\ err' = Join(inErr, result)

\* prop := newPropagator(); otel.SetTextMapPropagator(prop)
SetupPropagator ==
    /\ spc = "propagator"
    /\ installed' = installed \cup {"propagator"}
    /\ spc' = "tracer"
    /\ UNCHANGED <<shutdownFuncs, err, constructed, failedAt, tdLog, calls>>
    /\ UNCHANGED <<runVars, collectorVars>>

\* One provider block: construct, on error handleErr and return, otherwise
\* register its Shutdown and install it as the process-wide default.
SetupProvider(k) ==
    /\ spc = k
    /\ \/ /\ handleErr(<<ConstructErr(k)>>)
          /\ failedAt' = k
          /\ spc' = "returned"
          /\ UNCHANGED <<constructed, installed>>
       \/ /\ err' = Nil
          /\ constructed' = Append(constructed, k)
          /\ shutdownFuncs' = Append(shutdownFuncs, k)
          /\ installed' = installed \cup {k}
          /\ spc' = NextStep(k)
          /\ UNCHANGED <<failedAt, tdLog, calls>>
    /\ UNCHANGED <<runVars, collectorVars>>

SetupTracer == SetupProvider("tracer")
SetupMeter == SetupProvider("meter")
SetupLogger == SetupProvider("logger")

\* The final `return`.
SetupReturn ==
    /\ spc = "return"
    /\ spc' = "returned"
    /\ UNCHANGED <<shutdownFuncs, err, constructed, installed, failedAt, tdLog, calls>>
    /\ UNCHANGED <<runVars, collectorVars>>

SetupStep ==
    \/ SetupPropagator
    \/ SetupTracer
    \/ SetupMeter
    \/ SetupLogger
    \/ SetupReturn

\* A caller of setupOTelSDK invoking the returned shutdown function.
CallShutdown ==
    /\ spc = "returned"
    /\ rpc = "none"
    /\ Len(calls) < MaxShutdownCalls + 1
    /\ \E c \in Contexts, fails \in SUBSET Range(shutdownFuncs) :
           shutdown(c, fails, ShutdownErr(shutdownFuncs, fails))
    /\ UNCHANGED <<spc, err, constructed, installed, failedAt>>
    /\ UNCHANGED <<runVars, collectorVars>>

SetupInit ==
    /\ shutdownFuncs = <<>>
    /\ err = Nil
    /\ constructed = <<>>
    /\ installed = {}
    /\ failedAt = "none"
    /\ tdLog = <<>>
    /\ calls = <<>>

RunIdle ==
    /\ runErr = Nil
    /\ notifying = FALSE
    /\ gpc = "none"
    /\ lasResult = Nil
    /\ srvErr = <<>>
    /\ inShutdown = FALSE
    /\ shutdownCtx = "none"
    /\ branch = "none"
    /\ trace = <<>>

CollectorIdle ==
    /\ shutdownTracerProvider = "unset"
    /\ shutdownMeterProvider = "unset"
    /\ defers = <<>>
    /\ i = 0
    /\ panicking = FALSE
    /\ nilCalls = <<>>
    /\ logged = <<>>

Init ==
    /\ spc = "propagator"
    /\ SetupInit
    /\ rpc = "none"
    /\ ctxDone \in BOOLEAN
    /\ RunIdle
    /\ cpc = "none"
    /\ CollectorIdle

Next ==
    \/ SetupPropagator
    \/ SetupTracer
    \/ SetupMeter
    \/ SetupLogger
    \/ SetupReturn
    \/ CallShutdown

Spec == Init /\ [][Next]_vars

\* -------------------------------------------------------------------------
\* run (src/main.go)

\* An entry of the history `trace`: a call made by run and what it returned.
Event(name, result) == <<name, result>>

\* ctx, stop := signal.NotifyContext(context.Background(), os.Interrupt)
\* followed by the call of setupOTelSDK(ctx).
RunNotifyContext ==
    /\ rpc = "start"
    /\ notifying' = TRUE
    /\ rpc' = "setup"
    /\ spc' = "propagator"
    /\ UNCHANGED <<shutdownFuncs, err, constructed, installed, failedAt, tdLog, calls>>
    /\ UNCHANGED <<runErr, ctxDone, gpc, lasResult, srvErr, inShutdown, shutdownCtx,
                   branch, trace>>
    /\ UNCHANGED collectorVars

\* The OS delivers SIGINT while the NotifyContext registration is active.
Interrupt ==
    /\ notifying
    /\ ~ctxDone
    /\ ctxDone' = TRUE
    /\ UNCHANGED <<setupVars, collectorVars>>
    /\ UNCHANGED <<rpc, runErr, notifying, gpc, lasResult, srvErr, inShutdown,
                   shutdownCtx, branch, trace>>

\* `otelShutdown, err := setupOTelSDK(ctx); if err != nil { return }`, and on
\* success the registration of the deferred otelShutdown. The early return
\* runs the deferred stop().
RunAfterSetup ==
    /\ rpc = "setup"
    /\ spc = "returned"
    /\ runErr' = err
    /\ IF err # Nil
       THEN /\ rpc' = "done"
            /\ notifying' = FALSE
            /\ trace' = Append(trace, Event("stop", Nil))
       ELSE /\ rpc' = "serve"
            /\ UNCHANGED <<notifying, trace>>
    /\ UNCHANGED <<setupVars, collectorVars>>
    /\ UNCHANGED <<ctxDone, gpc, lasResult, srvErr, inShutdown, shutdownCtx, branch>>

\* srvErr := make(chan error, 1); go func() { srvErr <- srv.ListenAndServe() }()
RunServe ==
    /\ rpc = "serve"
    /\ gpc' = "listen"
    /\ rpc' = "select"
    /\ UNCHANGED <<setupVars, collectorVars>>
    /\ UNCHANGED <<runErr, notifying, ctxDone, lasResult, srvErr, inShutdown,
                   shutdownCtx, branch, trace>>

\* srv.ListenAndServe() up to the bind: ErrServerClosed when Shutdown was
\* already called, otherwise the bind fails or the accept loop starts.
GoListen ==
    /\ gpc = "listen"
    /\ IF inShutdown
       THEN /\ lasResult' = <<ErrServerClosed>>
            /\ gpc' = "send"
       ELSE \/ /\ lasResult' = <<ErrListen>>
               /\ gpc' = "send"
            \/ /\ gpc' = "serving"
               /\ UNCHANGED lasResult
    /\ UNCHANGED <<setupVars, collectorVars>>
    /\ UNCHANGED <<rpc, runErr, notifying, ctxDone, srvErr, inShutdown, shutdownCtx,
                   branch, trace>>

\* The accept loop ends: ErrServerClosed once Shutdown was called, an accept
\* error otherwise.
GoServeReturn ==
    /\ gpc = "serving"
    /\ lasResult' = IF inShutdown THEN <<ErrServerClosed>> ELSE <<ErrServe>>
    /\ gpc' = "send"
    /\ UNCHANGED <<setupVars, collectorVars>>
    /\ UNCHANGED <<rpc, runErr, notifying, ctxDone, srvErr, inShutdown, shutdownCtx,
                   branch, trace>>

\* srvErr <- (the value ListenAndServe returned)
GoSend ==
    /\ gpc = "send"
    /\ Len(srvErr) < SrvErrCap
    /\ srvErr' = Append(srvErr, lasResult)
    /\ gpc' = "exit"
    /\ UNCHANGED <<setupVars, collectorVars>>
    /\ UNCHANGED <<rpc, runErr, notifying, ctxDone, lasResult, inShutdown, shutdownCtx,
                   branch, trace>>

\* A plausible slip: otelShutdown called at the end of run instead of deferred,
\* so the early return of the server-error case skips it.
RunSelectSrvErrLeak ==
    /\ rpc = "select"
    /\ srvErr # <<>>
    /\ runErr' = Head(srvErr)
    /\ srvErr' = Tail(srvErr)
    /\ branch' = "srvErr"
    /\ rpc' = "done"
    /\ notifying' = FALSE
    /\ trace' = Append(trace, Event("stop", Nil))
    /\ UNCHANGED <<setupVars, collectorVars>>
    /\ UNCHANGED <<ctxDone, gpc, lasResult, inShutdown, shutdownCtx>>

\* A plausible slip: the server-error case falls through to srv.Shutdown.
RunSelectSrvErrFallthrough ==
    /\ rpc = "select"
    /\ srvErr # <<>>
    /\ runErr' = Head(srvErr)
    /\ srvErr' = Tail(srvErr)
    /\ branch' = "srvErr"
    /\ rpc' = "srvShutdown"
    /\ UNCHANGED <<setupVars, collectorVars>>
    /\ UNCHANGED <<notifying, ctxDone, gpc, lasResult, inShutdown, shutdownCtx, trace>>

\* select { case err = <-srvErr: return }
RunSelectSrvErr ==
    /\ rpc = "select"
    /\ srvErr # <<>>
    /\ runErr' = Head(srvErr)
    /\ srvErr' = Tail(srvErr)
    /\ branch' = "srvErr"
    /\ rpc' = "deferred"
    /\ UNCHANGED <<setupVars, collectorVars>>
    /\ UNCHANGED <<notifying, ctxDone, gpc, lasResult, inShutdown, shutdownCtx, trace>>

\* A plausible slip: the cancellation case does not call stop().
RunSelectCtxNoStop ==
    /\ rpc = "select"
    /\ ctxDone
    /\ branch' = "ctx"
    /\ rpc' = "srvShutdown"
    /\ UNCHANGED <<setupVars, collectorVars>>
    /\ UNCHANGED <<runErr, notifying, ctxDone, gpc, lasResult, srvErr, inShutdown,
                   shutdownCtx, trace>>

\* select { case <-ctx.Done(): stop() }
RunSelectCtx ==
    /\ rpc = "select"
    /\ ctxDone
    /\ branch' = "ctx"
    /\ notifying' = FALSE
    /\ trace' = Append(trace, Event("stop", Nil))
    /\ rpc' = "srvShutdown"
    /\ UNCHANGED <<setupVars, collectorVars>>
    /\ UNCHANGED <<runErr, ctxDone, gpc, lasResult, srvErr, inShutdown, shutdownCtx>>

\* err = srv.Shutdown(context.Background()); return
RunSrvShutdown ==
    /\ rpc = "srvShutdown"
    /\ inShutdown' = TRUE
    /\ shutdownCtx' = "background"
    /\ \E result \in {Nil, <<ErrSrvShutdown>>} :
           /\ runErr' = result
           /\ trace' = Append(trace, Event("srv.Shutdown", result))
    /\ rpc' = "deferred"
    /\ UNCHANGED <<setupVars, collectorVars>>
    /\ UNCHANGED <<notifying, ctxDone, gpc, lasResult, srvErr, branch>>

\* The deferred calls on return, last registered first:
\* `err = errors.Join(err, otelShutdown(context.Background()))`, then stop().
RunDeferred ==
    /\ rpc = "deferred"
    /\ \E fails \in SUBSET Range(shutdownFuncs) :
           LET result == ShutdownErr(shutdownFuncs, fails) IN
           /\ shutdown("live", fails, result)
           /\ runErr' = Join(runErr, result)
           /\ trace' = trace \o <<Event("otelShutdown", result), Event("stop", Nil)>>
    /\ notifying' = FALSE
    /\ rpc' = "done"
    /\ UNCHANGED <<spc, err, constructed, installed, failedAt>>
    /\ UNCHANGED <<ctxDone, gpc, lasResult, srvErr, inShutdown, shutdownCtx, branch>>
    /\ UNCHANGED collectorVars

MainStep ==
    \/ RunNotifyContext
    \/ SetupStep
    \/ RunAfterSetup
    \/ RunServe
    \/ RunSelectSrvErr
    \/ RunSelectCtx
    \/ RunSrvShutdown
    \/ RunDeferred

GoStep ==
    \/ GoListen
    \/ GoServeReturn
    \/ GoSend

RunInit ==
    /\ spc = "idle"
    /\ SetupInit
    /\ rpc = "start"
    /\ ctxDone = FALSE
    /\ RunIdle
    /\ cpc = "none"
    /\ CollectorIdle

RunNext ==
    \/ RunNotifyContext
    \/ SetupPropagator
    \/ SetupTracer
    \/ SetupMeter
    \/ SetupLogger
    \/ SetupReturn
    \/ RunAfterSetup
    \/ RunServe
    \/ RunSelectSrvErr
    \/ RunSelectCtx
    \/ RunSrvShutdown
    \/ RunDeferred
    \/ GoListen
    \/ GoServeReturn
    \/ GoSend
    \/ Interrupt

RunSpec == RunInit /\ [][RunNext]_vars

\* The Go scheduler runs every runnable goroutine; the interrupt is the
\* environment's and is not forced.
RunFair ==
    /\ RunSpec
    /\ WF_vars(MainStep)
    /\ WF_vars(GoStep)

\* -------------------------------------------------------------------------
\* main of the collector example (src/unnamed/part_001)

\* ctx, cancel := signal.NotifyContext(...); defer cancel();
\* res, err := resource.New(...); if err != nil { log.Fatal(err) }
\* log.Fatal exits the process without running deferred calls.
CResource ==
    /\ cpc = "resource"
    /\ \/ /\ cpc' = "fatal"
          /\ UNCHANGED defers
       \/ /\ cpc' = "logger"
          /\ defers' = Append(defers, "cancel")
    /\ UNCHANGED <<shutdownTracerProvider, shutdownMeterProvider, i, panicking,
                   nilCalls, logged>>
    /\ UNCHANGED <<setupVars, runVars>>

\* logger, err := initLoggerProvider(ctx, res); if err != nil { panic(...) }
CInitLogger ==
    /\ cpc = "logger"
    /\ \/ /\ panicking' = TRUE
          /\ cpc' = "defers"
       \/ /\ cpc' = "tracer"
          /\ UNCHANGED panicking
    /\ UNCHANGED <<shutdownTracerProvider, shutdownMeterProvider, defers, i,
                   nilCalls, logged>>
    /\ UNCHANGED <<setupVars, runVars>>

\* What initTracerProvider / initMeterProvider return as their first result:
\* `return nil, fmt.Errorf(...)` on error, the provider's Shutdown otherwise.
InitResult(ok) == IF ok THEN "fn" ELSE "nil"

\* shutdownTracerProvider, err := initTracerProvider(ctx, res)
\* if err != nil { logger.Error(...) }; defer func() { ... }()
CInitTracer ==
    /\ cpc = "tracer"
    /\ \E ok \in BOOLEAN :
           /\ shutdownTracerProvider' = InitResult(ok)
           /\ logged' = IF ok THEN logged ELSE Append(logged, <<"initialize", "tracer">>)
    /\ defers' = Append(defers, "tracer")
    /\ cpc' = "meter"
    /\ UNCHANGED <<shutdownMeterProvider, i, panicking, nilCalls>>
    /\ UNCHANGED <<setupVars, runVars>>

\* shutdownMeterProvider, err := initMeterProvider(ctx, res)
\* if err != nil { logger.Error(...) }; defer func() { ... }()
CInitMeter ==
    /\ cpc = "meter"
    /\ \E ok \in BOOLEAN :
           /\ shutdownMeterProvider' = InitResult(ok)
           /\ logged' = IF ok THEN logged ELSE Append(logged, <<"initialize", "meter">>)
    /\ defers' = Append(defers, "meter")
    /\ cpc' = "counter"
    /\ UNCHANGED <<shutdownTracerProvider, i, panicking, nilCalls>>
    /\ UNCHANGED <<setupVars, runVars>>

\* runCount, err := meter.Int64Counter(...); if err != nil { log.Fatal(err) }
CCounter ==
    /\ cpc = "counter"
    /\ cpc' \in {"fatal", "span"}
    /\ UNCHANGED <<shutdownTracerProvider, shutdownMeterProvider, defers, i, panicking,
                   nilCalls, logged>>
    /\ UNCHANGED <<setupVars, runVars>>

\* ctx, span := tracer.Start(...); defer span.End()
CStartSpan ==
    /\ cpc = "span"
    /\ defers' = Append(defers, "span")
    /\ cpc' = "loop"
    /\ UNCHANGED <<shutdownTracerProvider, shutdownMeterProvider, i, panicking,
                   nilCalls, logged>>
    /\ UNCHANGED <<setupVars, runVars>>

\* One iteration of `for i := 0; i < 10; i++ { ... }`
CLoop ==
    /\ cpc = "loop"
    /\ i < LoopCount
    /\ i' = i + 1
    /\ UNCHANGED <<cpc, shutdownTracerProvider, shutdownMeterProvider, defers, panicking,
                   nilCalls, logged>>
    /\ UNCHANGED <<setupVars, runVars>>

\* The loop ends; logger.Info("Done!"); main returns.
CReturn ==
    /\ cpc = "loop"
    /\ i >= LoopCount
    /\ cpc' = "defers"
    /\ UNCHANGED <<shutdownTracerProvider, shutdownMeterProvider, defers, i, panicking,
                   nilCalls, logged>>
    /\ UNCHANGED <<setupVars, runVars>>

\* The function value a deferred closure calls.
DeferredTarget(d) ==
    IF d = "tracer" THEN shutdownTracerProvider
    ELSE IF d = "meter" THEN shutdownMeterProvider
    ELSE "fn"

\* `shutdownXProvider(ctx)` inside the deferred closure is a call through nil.
CallsThroughNil(d) == DeferredTarget(d) = "nil"

\* The last registered deferred call runs. A call through a nil function
\* value panics; a panic keeps unwinding through the remaining deferred calls.
CRunDeferred ==
    /\ cpc = "defers"
    /\ defers # <<>>
    /\ LET d == defers[Len(defers)] IN
       /\ defers' = SubSeq(defers, 1, Len(defers) - 1)
       /\ IF CallsThroughNil(d)
          THEN /\ nilCalls' = Append(nilCalls, d)
               /\ panicking' = TRUE
               /\ UNCHANGED logged
          ELSE /\ UNCHANGED <<nilCalls, panicking>>
               /\ IF d \in {"tracer", "meter"}
                  THEN \E ok \in BOOLEAN :
                         logged' = IF ok THEN logged
                                   ELSE Append(logged, <<"shutdown", d>>)
                  ELSE UNCHANGED logged
    /\ UNCHANGED <<cpc, shutdownTracerProvider, shutdownMeterProvider, i>>
    /\ UNCHANGED <<setupVars, runVars>>

\* All deferred calls ran: the process exits, or crashes with the panic.
CExit ==
    /\ cpc = "defers"
    /\ defers = <<>>
    /\ cpc' = IF panicking THEN "crashed" ELSE "exited"
    /\ UNCHANGED <<shutdownTracerProvider, shutdownMeterProvider, defers, i, panicking,
                   nilCalls, logged>>
    /\ UNCHANGED <<setupVars, runVars>>

CollectorInit ==
    /\ spc = "idle"
    /\ SetupInit
    /\ rpc = "none"
    /\ ctxDone = FALSE
    /\ RunIdle
    /\ cpc = "resource"
    /\ CollectorIdle

CollectorNext ==
    \/ CResource
    \/ CInitLogger
    \/ CInitTracer
    \/ CInitMeter
    \/ CCounter
    \/ CStartSpan
    \/ CLoop
    \/ CReturn
    \/ CRunDeferred
    \/ CExit

CollectorSpec == CollectorInit /\ [][CollectorNext]_vars

\* -------------------------------------------------------------------------
\* Properties of setupOTelSDK (checked under Spec)

\* C1: when the constructor of provider kind i fails, setupOTelSDK has
\* returned with the teardown of each provider constructed before i invoked
\* exactly once and in no other way (none for i, none twice), and exactly the
\* providers before i constructed and installed as process-wide defaults.
C1_FailureCleanup ==
    failedAt # "none" =>
        LET before == Before(failedAt, ConstructionOrder) IN
        /\ spc = "returned"
        /\ tdLog = before
        /\ constructed = before
        /\ installed \cap Kinds = Range(before)

\* C1 witness: the meter constructor failed: tracer torn down once, logger
\* never constructed.
C1_Witness ==
    /\ failedAt = "meter"
    /\ tdLog = <<"tracer">>
    /\ "logger" \notin Range(constructed)
    /\ "logger" \notin installed

\* C2: after a constructor failure the error setupOTelSDK returns contains
\* the construction error and the error of every teardown callback that
\* failed during the cleanup, and nothing else.
C2_JoinedFailure ==
    failedAt # "none" =>
        /\ Contains(err, ConstructErr(failedAt))
        /\ \A k \in calls[1].fails : Contains(err, TeardownErr(k))
        /\ Len(err) = 1 + Cardinality(calls[1].fails)

\* C2 witness: the logger constructor failed and both earlier teardowns failed.
C2_Witness ==
    /\ failedAt = "logger"
    /\ calls[1].fails = {"tracer", "meter"}
    /\ Len(err) = 3

\* C3: every invocation of the shutdown closure after the first one (the
\* first being the failure cleanup when setup failed) invokes no teardown
\* callback and returns nil.
C3_Idempotent ==
    \A n \in 2..Len(calls) :
        /\ calls[n].invoked = <<>>
        /\ calls[n].err = Nil

\* C3 witness: setup succeeded, the first shutdown returned teardown errors,
\* and shutdown has been invoked twice more.
C3_Witness ==
    /\ failedAt = "none"
    /\ Len(calls) >= 3
    /\ Len(calls[1].invoked) = 3
    /\ calls[1].err # Nil

\* C4: the shutdown closure invokes the teardown callbacks in construction
\* order: its first invocation runs exactly the constructed providers in the
\* order they were constructed, and the log of all teardown invocations is a
\* prefix of tracer, meter, logger.
C4_ForwardOrder ==
    /\ IsPrefix(tdLog, ConstructionOrder)
    /\ Len(calls) >= 1 => calls[1].invoked = constructed

\* C4 witness: all three teardowns ran, tracer first and logger last.
C4_Witness ==
    /\ Len(calls) >= 1
    /\ tdLog = <<"tracer", "meter", "logger">>

\* C5: the first shutdown after a fully successful setup invokes all three
\* callbacks and returns an error that contains the error of a callback
\* exactly when that callback failed; it is nil exactly when none failed.
C5_AllErrorsJoined ==
    (failedAt = "none" /\ Len(calls) >= 1) =>
        /\ calls[1].invoked = ConstructionOrder
        /\ \A k \in Kinds :
               Contains(calls[1].err, TeardownErr(k)) <=> k \in calls[1].fails
        /\ (calls[1].err = Nil) <=> (calls[1].fails = {})

\* C5 witness: two independent teardown callbacks failed in the same shutdown.
C5_Witness ==
    /\ failedAt = "none"
    /\ Len(calls) >= 1
    /\ calls[1].fails = {"tracer", "logger"}

\* -------------------------------------------------------------------------
\* Properties of run (checked under RunSpec and RunFair)

\* ListenAndServe returned an error other than ErrServerClosed.
ServerFailed == lasResult \in {<<ErrListen>>, <<ErrServe>>}

\* C6: no provider is ever torn down twice, and when run() has returned every
\* constructed provider has been torn down exactly once and nothing else has.
C6_TornDownOnce ==
    /\ \A k \in Kinds : Count(k, tdLog) <= 1
    /\ rpc = "done" =>
           \A k \in Kinds :
               Count(k, tdLog) = IF k \in Range(constructed) THEN 1 ELSE 0

\* C6 witness: run() returned through the server-error case with all three
\* providers torn down.
C6_Witness ==
    /\ rpc = "done"
    /\ branch = "srvErr"
    /\ Len(tdLog) = 3

C8_ServerErrorSurfaced ==
    (rpc = "done" /\ ServerFailed) => Contains(runErr, lasResult[1])

\* The safety part of C9: run() returned after a successful setup and the
\* server never failed.
C9_CleanInterruptPath ==
    (rpc = "done" /\ failedAt = "none" /\ ~ServerFailed) =>
        /\ branch = "ctx"
        /\ ~notifying
        /\ Len(trace) = 4
        /\ trace[1] = Event("stop", Nil)
        /\ trace[2][1] = "srv.Shutdown"
        /\ trace[3][1] = "otelShutdown"
        /\ trace[4] = Event("stop", Nil)
        /\ runErr = Join(trace[2][2], trace[3][2])
        /\ (trace[2][2] = Nil /\ calls[1].fails = {}) => runErr = Nil

\* The goroutine's send into srvErr finds room in the channel.
C9_SendNeverBlocks == gpc = "send" => Len(srvErr) < SrvErrCap

C10_NoNilTeardownCall == nilCalls = <<>>

====
